---------------------------- MODULE Spec2Model ----------------------------
(***************************************************************************)
(* Model of the MFTNB booking application (src/app.py): the pure estimator *)
(* compute_estimate and the Flask handlers that read and write the         *)
(* per-visitor session.                                                    *)
(*                                                                         *)
(* Numbers.  Python floats are carried as exact decimal fixed-point        *)
(* integers:                                                               *)
(*   distance_km            in 1/100 km     (inputs have <= 2 decimals)    *)
(*   hours (accumulated)    in 1/5000 hour  (distance_km / 50.0 is exact)  *)
(*   cost  (accumulated)    in 1/10000 currency unit                       *)
(*   hours (returned)       in 1/10 hour    (round(hours, 1))              *)
(*   cost  (returned)       in 1/100 unit   (round(cost, 2))               *)
(* round() is round-half-to-even on the exact value.  A binary double that *)
(* sits on an exact decimal tie may round either way in Python; the input  *)
(* sets below contain no distance whose hours fall on such a tie (that is  *)
(* distance_km = 2.5 + 5k), and costs never tie at 1/100 km granularity.   *)
(*                                                                         *)
(* Text.  Form fields are strings; int(), float() and strptime() are       *)
(* modelled character by character over the alphabet the inputs use        *)
(* (digits, "+", "-", ".", "_", " " and the letter "x").                   *)
(***************************************************************************)
EXTENDS Integers, Sequences, FiniteSets, TLC

(* ----------------------------- bounds ---------------------------------- *)
MaxBedrooms == 7
MaxStairs == 1
MaxHeavy == 2
MaxFine == 2
MaxDistSteps == 6

(* --------------------------- text helpers ------------------------------ *)
Digits == {"0", "1", "2", "3", "4", "5", "6", "7", "8", "9"}

(* The character of s at position i, "" past the end *)
CharAt(s, i) == IF i >= 1 /\ i <= Len(s) THEN SubSeq(s, i, i) ELSE ""

DigitVal(c) ==
    CASE c = "0" -> 0 [] c = "1" -> 1 [] c = "2" -> 2 [] c = "3" -> 3
      [] c = "4" -> 4 [] c = "5" -> 5 [] c = "6" -> 6 [] c = "7" -> 7
      [] c = "8" -> 8 [] c = "9" -> 9

RECURSIVE LStrip(_)
LStrip(s) == IF Len(s) > 0 /\ CharAt(s, 1) = " " THEN LStrip(Tail(s)) ELSE s

RECURSIVE RStrip(_)
RStrip(s) ==
    IF Len(s) > 0 /\ CharAt(s, Len(s)) = " "
    THEN RStrip(SubSeq(s, 1, Len(s) - 1)) ELSE s

Strip(s) == RStrip(LStrip(s))

(* First position of character c in s, or 0 *)
RECURSIVE FindFrom(_, _, _)
FindFrom(s, c, i) ==
    IF i > Len(s) THEN 0
    ELSE IF CharAt(s, i) = c THEN i ELSE FindFrom(s, c, i + 1)

Find(s, c) == FindFrom(s, c, 1)

AllDigits(s) == \A i \in 1..Len(s) : CharAt(s, i) \in Digits

(* A digit group of a Python numeric literal: digits, with single         *)
(* underscores allowed between two digits.                                *)
IsDigitGroup(s) ==
    /\ Len(s) > 0
    /\ \A i \in 1..Len(s) :
          \/ CharAt(s, i) \in Digits
          \/ /\ CharAt(s, i) = "_"
             /\ i > 1 /\ i < Len(s)
             /\ CharAt(s, i - 1) \in Digits
             /\ CharAt(s, i + 1) \in Digits

(* Value of a digit group, underscores skipped; acc is the value so far.  *)
RECURSIVE DigitsValue(_, _)
DigitsValue(s, acc) ==
    IF Len(s) = 0 THEN acc
    ELSE IF Head(s) = "_" THEN DigitsValue(Tail(s), acc)
    ELSE DigitsValue(Tail(s), 10 * acc + DigitVal(Head(s)))

Unsigned(s) ==
    IF Len(s) > 0 /\ Head(s) \in {"+", "-"} THEN Tail(s) ELSE s

Sign(s) == IF Len(s) > 0 /\ Head(s) = "-" THEN 0 - 1 ELSE 1

ValueError == [ok |-> FALSE, v |-> 0]

(* int(text): surrounding whitespace, an optional sign, a digit group.    *)
ParseInt(text) ==
    LET s == Strip(text)
        u == Unsigned(s)
    IN  IF IsDigitGroup(u)
        THEN [ok |-> TRUE, v |-> Sign(s) * DigitsValue(u, 0)]
        ELSE ValueError

RECURSIVE WithoutUnderscores(_)
WithoutUnderscores(s) ==
    IF Len(s) = 0 THEN s
    ELSE IF Head(s) = "_" THEN WithoutUnderscores(Tail(s))
    ELSE Head(s) \o WithoutUnderscores(Tail(s))

(* The first two fraction digits of the digit group f, as hundredths.     *)
Hundredths(f) ==
    LET d == WithoutUnderscores(f)
        g == SubSeq(d, 1, IF Len(d) < 2 THEN Len(d) ELSE 2)
    IN  IF Len(g) = 1 THEN 10 * DigitsValue(g, 0) ELSE DigitsValue(g, 0)

(* float(text) for plain decimal text: surrounding whitespace, an         *)
(* optional sign, then digits, digits "." [digits] or "." digits.         *)
(* The value is returned in 1/100.                                        *)
ParseFloat(text) ==
    LET s == Strip(text)
        u == Unsigned(s)
        dot == Find(u, ".")
        ip == IF dot = 0 THEN u ELSE SubSeq(u, 1, dot - 1)
        fp == IF dot = 0 THEN "" ELSE SubSeq(u, dot + 1, Len(u))
        wellFormed ==
            /\ Len(ip) + Len(fp) > 0
            /\ Len(ip) = 0 \/ IsDigitGroup(ip)
            /\ Len(fp) = 0 \/ IsDigitGroup(fp)
    IN  IF wellFormed
        THEN [ok |-> TRUE,
              v |-> Sign(s) * (100 * DigitsValue(ip, 0) + Hundredths(fp))]
        ELSE ValueError

(* ------------------------------ dates ---------------------------------- *)
IsLeap(y) == (y % 4 = 0 /\ y % 100 # 0) \/ y % 400 = 0

DaysInMonth(y, m) ==
    IF m = 2 THEN (IF IsLeap(y) THEN 29 ELSE 28)
    ELSE IF m \in {4, 6, 9, 11} THEN 30 ELSE 31

(* %m and %d accept one digit 1-9 or two digits, never "0" or "00".       *)
IsDayOrMonthField(s, max) ==
    /\ Len(s) \in {1, 2}
    /\ AllDigits(s)
    /\ DigitsValue(s, 0) >= 1
    /\ DigitsValue(s, 0) <= max

(* datetime.datetime.strptime(text, '%Y-%m-%d').date()                    *)
strptime(text) ==
    LET d1 == Find(text, "-")
        rest == IF d1 = 0 THEN "" ELSE SubSeq(text, d1 + 1, Len(text))
        d2 == Find(rest, "-")
        ys == IF d1 = 0 THEN text ELSE SubSeq(text, 1, d1 - 1)
        ms == IF d2 = 0 THEN rest ELSE SubSeq(rest, 1, d2 - 1)
        ds == IF d2 = 0 THEN "" ELSE SubSeq(rest, d2 + 1, Len(rest))
        matches ==
            /\ d1 # 0 /\ d2 # 0
            /\ Len(ys) = 4 /\ AllDigits(ys)
            /\ IsDayOrMonthField(ms, 12)
            /\ IsDayOrMonthField(ds, 31)
    IN  IF /\ matches
           /\ DigitsValue(ys, 0) >= 1
           /\ DigitsValue(ds, 0) <= DaysInMonth(DigitsValue(ys, 0), DigitsValue(ms, 0))
        THEN [ok |-> TRUE, year |-> DigitsValue(ys, 0),
              month |-> DigitsValue(ms, 0), day |-> DigitsValue(ds, 0)]
        ELSE [ok |-> FALSE, year |-> 0, month |-> 0, day |-> 0]

(* ---------------------------- estimator -------------------------------- *)
(* round(x, ndigits): n is the exact value in fine units, q the number of *)
(* fine units in one unit of the rounded result; ties go to even.         *)
round(n, q) ==
    LET fl == n \div q
        r == n % q
    IN  IF 2 * r > q \/ (2 * r = q /\ fl % 2 = 1) THEN fl + 1 ELSE fl

(* Crew size (src/app.py 41-46) *)
crew_size(bedrooms) ==
    IF bedrooms <= 1 THEN 2
    ELSE IF bedrooms = 2 THEN 3
    ELSE 4

(* Variant: the tier for four or more bedrooms is forgotten *)
base_hours_three_tiers(bedrooms) ==
    IF bedrooms <= 1 THEN 5000 * 4
    ELSE IF bedrooms = 2 THEN 5000 * 6
    ELSE 5000 * 8

(* Base hours by home size (src/app.py 49-56), in 1/5000 hour *)
base_hours(bedrooms) ==
    IF bedrooms <= 1 THEN 5000 * 4
    ELSE IF bedrooms = 2 THEN 5000 * 6
    ELSE IF bedrooms = 3 THEN 5000 * 8
    ELSE 5000 * 10

(* Hourly rate by crew, with the peak season adjustment (67-77) *)
rate_for(movers, peak_season) ==
    LET hourly_rate == IF movers = 2 THEN 140
                       ELSE IF movers = 3 THEN 160
                       ELSE 180
    IN  IF peak_season THEN (hourly_rate * 12) \div 10 ELSE hourly_rate

(* Variant: the mileage rate has its digits transposed *)
fuel_surcharge_low_rate(distance_km) ==
    IF distance_km <= 100 * 100 THEN 40 * 10000
    ELSE distance_km * 27

(* Variant: the flat fee stops below 100 km, as the source comment says *)
fuel_surcharge_strict(distance_km) ==
    IF distance_km < 100 * 100 THEN 40 * 10000
    ELSE distance_km * 72

(* Fuel surcharge (81-85), in 1/10000 currency unit; distance in 1/100 km *)
fuel_surcharge(distance_km) ==
    IF distance_km <= 100 * 100 THEN 40 * 10000
    ELSE distance_km * 72

(* Variant: the peak multiplier is applied to the whole cost, fuel included *)
estimate_locals_peak_on_total(bedrooms, stairs_origin, stairs_destination, heavy_items, distance_km, peak_season) ==
    LET movers == crew_size(bedrooms)
        hours == base_hours(bedrooms)
                   + 2500 * heavy_items
                   + distance_km
                   + 2500 * (stairs_origin + stairs_destination)
        hourly_rate == rate_for(movers, FALSE)
        cost == (hours * 2) * hourly_rate + fuel_surcharge(distance_km)
    IN  [movers |-> movers, hours |-> hours,
         hourly_rate |-> rate_for(movers, peak_season),
         cost |-> IF peak_season THEN (cost * 12) \div 10 ELSE cost]

(* The local variables of compute_estimate when it reaches its return     *)
(* statement: hours in 1/5000 hour, cost in 1/10000 currency unit.        *)
estimate_locals(bedrooms, stairs_origin, stairs_destination, heavy_items, distance_km, peak_season) ==
    LET movers == crew_size(bedrooms)
        hours == base_hours(bedrooms)
                   + 2500 * heavy_items
                   + distance_km
                   + 2500 * (stairs_origin + stairs_destination)
        hourly_rate == rate_for(movers, peak_season)
        cost == (hours * 2) * hourly_rate + fuel_surcharge(distance_km)
    IN  [movers |-> movers, hours |-> hours,
         hourly_rate |-> hourly_rate, cost |-> cost]

(* Variant: hours are rounded first and the cost is derived from them *)
compute_estimate_from_rounded_hours(bedrooms, stairs_origin, stairs_destination, heavy_items, distance_km, peak_season) ==
    LET l == estimate_locals(bedrooms, stairs_origin, stairs_destination,
                             heavy_items, distance_km, peak_season)
        hours == round(l.hours, 500)
    IN  [movers |-> l.movers,
         hours |-> hours,
         cost |-> round((hours * 500 * 2) * l.hourly_rate
                          + fuel_surcharge(distance_km), 100)]

(* compute_estimate: movers, round(hours, 1) in 1/10 hour and             *)
(* round(cost, 2) in 1/100 currency unit.                                 *)
compute_estimate(bedrooms, stairs_origin, stairs_destination, heavy_items, distance_km, peak_season) ==
    LET l == estimate_locals(bedrooms, stairs_origin, stairs_destination,
                             heavy_items, distance_km, peak_season)
    IN  [movers |-> l.movers,
         hours |-> round(l.hours, 500),
         cost |-> round(l.cost, 100)]

(* ------------------------------- JSON ---------------------------------- *)
(* json.loads for documents made of strings (no escapes) and arrays.      *)
JsonError == [ok |-> FALSE, next |-> 0, val |-> <<>>]

RECURSIVE JsonValue(_, _)
RECURSIVE JsonElements(_, _, _)
JsonValue(s, i) ==
    IF CharAt(s, i) = "\""
    THEN LET j == FindFrom(s, "\"", i + 1)
         IN  IF j = 0 THEN JsonError
             ELSE [ok |-> TRUE, next |-> j + 1, val |-> SubSeq(s, i + 1, j - 1)]
    ELSE IF CharAt(s, i) = "["
    THEN IF CharAt(s, i + 1) = "]"
         THEN [ok |-> TRUE, next |-> i + 2, val |-> <<>>]
         ELSE JsonElements(s, i + 1, <<>>)
    ELSE JsonError

JsonElements(s, i, acc) ==
    LET v == JsonValue(s, i)
    IN  IF ~v.ok THEN JsonError
        ELSE IF CharAt(s, v.next) = ","
        THEN JsonElements(s, v.next + 1, Append(acc, v.val))
        ELSE IF CharAt(s, v.next) = "]"
        THEN [ok |-> TRUE, next |-> v.next + 1, val |-> Append(acc, v.val)]
        ELSE JsonError

json_loads(s) ==
    LET v == JsonValue(s, 1)
    IN  IF v.ok /\ v.next = Len(s) + 1 THEN v ELSE JsonError

(* ------------------------------ state ---------------------------------- *)
VARIABLES
    est_args,       \* arguments of the latest direct compute_estimate call
    est_out,        \* <<>> before the call, else <<[ret, locals]>> of it
    est_prev,       \* <<>> or <<[args, ret]>> of the call made before it
    session,        \* Flask session: a function from the keys set so far
    request,        \* the request being answered: method, path, form
    response,       \* what the handler returned
    invoked,        \* compute_estimate calls made by the handler: <<>> or <<args>>
    estimate_form   \* history: <<>> or <<contact and move details>> submitted by the
                    \* POST that stored session['estimate']

est_vars == <<est_args, est_out, est_prev>>
web_vars == <<session, request, response, invoked, estimate_form>>
vars == <<est_args, est_out, est_prev, session, request, response, invoked, estimate_form>>

(* ------------------------ estimator, called directly ------------------- *)
Distances ==
    (0..MaxFine) \cup {100 * 100 - 1, 100 * 100, 100 * 100 + 1}
                 \cup {2500 * k : k \in 0..MaxDistSteps}

EstimatorInputs ==
    [bedrooms : (0 - 1)..MaxBedrooms,
     stairs_origin : 0..MaxStairs,
     stairs_destination : 0..MaxStairs,
     heavy_items : 0..MaxHeavy,
     distance_km : Distances,
     peak_season : BOOLEAN]

Call(a) ==
    [ret |-> compute_estimate(a.bedrooms, a.stairs_origin, a.stairs_destination,
                              a.heavy_items, a.distance_km, a.peak_season),
     locals |-> estimate_locals(a.bedrooms, a.stairs_origin, a.stairs_destination,
                                a.heavy_items, a.distance_km, a.peak_season)]

NoRequest == [method |-> "", path |-> "", form |-> <<>>]
NoResponse == [kind |-> "none"]

InitEst ==
    /\ est_args \in EstimatorInputs
    /\ est_out = <<>>
    /\ est_prev = <<>>
    /\ session = <<>>
    /\ request = NoRequest
    /\ response = NoResponse
    /\ invoked = <<>>
    /\ estimate_form = <<>>

(* The first call with the chosen arguments *)
Estimate ==
    /\ est_out = <<>>
    /\ est_out' = <<Call(est_args)>>
    /\ UNCHANGED <<est_args, est_prev>>
    /\ UNCHANGED web_vars

(* A second call in which exactly one of heavy_items, distance_km,        *)
(* stairs_origin, stairs_destination is larger                            *)
EstimateWithMore ==
    /\ est_out # <<>>
    /\ \E f \in {"heavy_items", "distance_km", "stairs_origin", "stairs_destination"} :
       \E v \in (IF f = "distance_km" THEN Distances
                 ELSE IF f = "heavy_items" THEN 0..MaxHeavy
                 ELSE 0..MaxStairs) :
          /\ v > est_args[f]
          /\ est_prev' = <<[args |-> est_args, ret |-> est_out[1].ret]>>
          /\ est_args' = [est_args EXCEPT ![f] = v]
          /\ est_out' = <<Call(est_args')>>
    /\ UNCHANGED web_vars

(* The same call again, in peak season *)
EstimateInPeak ==
    /\ est_out # <<>>
    /\ ~est_args.peak_season
    /\ est_prev' = <<[args |-> est_args, ret |-> est_out[1].ret]>>
    /\ est_args' = [est_args EXCEPT !.peak_season = TRUE]
    /\ est_out' = <<Call(est_args')>>
    /\ UNCHANGED web_vars

NextEst == Estimate \/ EstimateWithMore \/ EstimateInPeak

SpecEst == InitEst /\ [][NextEst]_vars

(* ----------------------------- web layer ------------------------------- *)
(* request.form.get(key, default) and session.get(key, default) *)
Get(d, key, default) == IF key \in DOMAIN d THEN d[key] ELSE default

(* d[key] = value *)
Set(d, key, value) ==
    [k \in DOMAIN d \cup {key} |-> IF k = key THEN value ELSE d[k]]

Merge(f, g) ==
    [k \in DOMAIN f \cup DOMAIN g |-> IF k \in DOMAIN f THEN f[k] ELSE g[k]]

ContactKeys == <<"name", "email", "phone", "move_date", "origin", "destination", "notes">>

(* What visitors may submit.  A field left out of a form is a key missing *)
(* from the record.                                                       *)
ContactInputs ==
    { [name |-> "Ann", email |-> "ann@example.org", phone |-> "555-0101",
       origin |-> "Calgary", destination |-> "Banff", notes |-> "piano"],
      [name |-> "Bob", email |-> "bob@example.org",
       origin |-> "Regina", destination |-> "Regina"] }

DateInputs ==
    { <<>>, [move_date |-> "2024-07-15"], [move_date |-> "2024-6-1"],
      [move_date |-> "2024-01-10"], [move_date |-> "2024-06-31"] }

NumericInputs ==
    { <<>>,
      [bedrooms |-> "3", stairs_origin |-> "1", stairs_destination |-> "1",
       heavy_items |-> "2", distance_km |-> "150"],
      [bedrooms |-> " 2 ", stairs_origin |-> "0", stairs_destination |-> "0",
       heavy_items |-> "+1", distance_km |-> "0.01"],
      [bedrooms |-> "-1", distance_km |-> "20"],
      [bedrooms |-> "1", heavy_items |-> "1", distance_km |-> "-5"],
      [bedrooms |-> "x", distance_km |-> "20"],
      [bedrooms |-> "2", stairs_origin |-> "1.5", distance_km |-> "20"],
      [bedrooms |-> "2", stairs_destination |-> "", distance_km |-> "20"],
      [bedrooms |-> "2", heavy_items |-> "-", distance_km |-> "20"],
      [bedrooms |-> "2", distance_km |-> "1.2.3"] }

BookingForms ==
    { Merge(c, Merge(d, n)) : c \in ContactInputs, d \in DateInputs, n \in NumericInputs }

InventoryForms ==
    { [inventory_data |-> "[\"sofa\",\"bed\"]"], [inventory_data |-> "[\"sofa\""] }

redirect(endpoint) == [kind |-> "redirect", location |-> endpoint, flash |-> <<>>]

render_template(template, context) ==
    [kind |-> "render", template |-> template, context |-> context]

Init ==
    /\ session = <<>>
    /\ request = NoRequest
    /\ response = NoResponse
    /\ invoked = <<>>
    /\ estimate_form = <<>>
    /\ est_args = [bedrooms |-> 0, stairs_origin |-> 0, stairs_destination |-> 0,
                   heavy_items |-> 0, distance_km |-> 0, peak_season |-> FALSE]
    /\ est_out = <<>>
    /\ est_prev = <<>>

(* GET / *)
index ==
    /\ request' = [method |-> "GET", path |-> "index", form |-> <<>>]
    /\ response' = render_template("index.html", <<>>)
    /\ invoked' = <<>>
    /\ UNCHANGED <<session, estimate_form>>
    /\ UNCHANGED est_vars

(* GET /tips *)
tips ==
    /\ request' = [method |-> "GET", path |-> "tips", form |-> <<>>]
    /\ response' = render_template("tips.html", [tips |-> 10])
    /\ invoked' = <<>>
    /\ UNCHANGED <<session, estimate_form>>
    /\ UNCHANGED est_vars

(* GET /inventory *)
inventory_get ==
    /\ request' = [method |-> "GET", path |-> "inventory", form |-> <<>>]
    /\ response' = render_template("inventory.html", <<>>)
    /\ invoked' = <<>>
    /\ UNCHANGED <<session, estimate_form>>
    /\ UNCHANGED est_vars

(* POST /inventory *)
inventory_post ==
    \E form \in InventoryForms :
        /\ request' = [method |-> "POST", path |-> "inventory", form |-> form]
        /\ session' = Set(session, "inventory_data", Get(form, "inventory_data", ""))
        /\ response' = redirect("booking")
        /\ invoked' = <<>>
        /\ UNCHANGED estimate_form
        /\ UNCHANGED est_vars

(* GET /booking *)
booking_get ==
    /\ request' = [method |-> "GET", path |-> "booking", form |-> <<>>]
    /\ response' = render_template("booking.html", <<>>)
    /\ invoked' = <<>>
    /\ UNCHANGED <<session, estimate_form>>
    /\ UNCHANGED est_vars

ContactKeySet == {ContactKeys[i] : i \in 1..Len(ContactKeys)}

(* Lines 208-214: the contact and move details as stored in the session, *)
(* a field missing from the form stored as ''                            *)
ContactDetails(form) == [k \in ContactKeySet |-> Get(form, k, "")]

(* The five numeric fields as parsed by lines 218-222 *)
ParseNumbers(form) ==
    [bedrooms |-> ParseInt(Get(form, "bedrooms", "1")),
     stairs_origin |-> ParseInt(Get(form, "stairs_origin", "0")),
     stairs_destination |-> ParseInt(Get(form, "stairs_destination", "0")),
     heavy_items |-> ParseInt(Get(form, "heavy_items", "0")),
     distance_km |-> ParseFloat(Get(form, "distance_km", "0"))]

(* Variant: June is left out of the season *)
PeakSeason_without_june(move_date) ==
    IF move_date # ""
    THEN LET date_obj == strptime(move_date)
         IN  date_obj.ok /\ date_obj.month \in {7, 8}
    ELSE FALSE

(* Lines 228-236: peak season from the stored move date *)
PeakSeason(move_date) ==
    IF move_date # ""
    THEN LET date_obj == strptime(move_date)
         IN  date_obj.ok /\ date_obj.month \in {6, 7, 8}
    ELSE FALSE

(* Variant: only bedrooms and distance are checked *)
NumbersRejected_partial(num) == ~num.bedrooms.ok \/ ~num.distance_km.ok

(* Lines 217-225: the try block raises ValueError at the first field that *)
(* does not parse                                                         *)
NumbersRejected(num) == \E k \in DOMAIN num : ~num[k].ok

(* Variant: heavy_items echoes the wrong variable *)
EstimateEntry_copy_paste(est, args) ==
    [movers |-> est.movers,
     hours |-> est.hours,
     cost |-> est.cost,
     bedrooms |-> args.bedrooms,
     stairs_origin |-> args.stairs_origin,
     stairs_destination |-> args.stairs_destination,
     heavy_items |-> args.stairs_destination,
     distance_km |-> args.distance_km,
     peak_season |-> args.peak_season]

(* Lines 242-252: the dictionary stored as session['estimate'] *)
EstimateEntry(est, args) ==
    [movers |-> est.movers,
     hours |-> est.hours,
     cost |-> est.cost,
     bedrooms |-> args.bedrooms,
     stairs_origin |-> args.stairs_origin,
     stairs_destination |-> args.stairs_destination,
     heavy_items |-> args.heavy_items,
     distance_km |-> args.distance_km,
     peak_season |-> args.peak_season]

(* The forms with their conversions, tabulated once *)
Submissions ==
    { [form |-> form, details |-> ContactDetails(form), num |-> ParseNumbers(form)] :
         form \in BookingForms }

PeakOfDate == [d \in {sub.details["move_date"] : sub \in Submissions} |-> PeakSeason(d)]

(* POST /booking *)
booking_post ==
    \E sub \in Submissions :
        LET form == sub.form
            stored == Merge(sub.details, session)
            num == sub.num
            peak == PeakOfDate[stored["move_date"]]
            args == [bedrooms |-> num.bedrooms.v,
                     stairs_origin |-> num.stairs_origin.v,
                     stairs_destination |-> num.stairs_destination.v,
                     heavy_items |-> num.heavy_items.v,
                     distance_km |-> num.distance_km.v,
                     peak_season |-> peak]
            est == compute_estimate(args.bedrooms, args.stairs_origin,
                                    args.stairs_destination, args.heavy_items,
                                    args.distance_km, args.peak_season)
        IN  /\ request' = [method |-> "POST", path |-> "booking", form |-> form]
            /\ IF NumbersRejected(num)
               THEN /\ session' = stored
                    /\ response' = [redirect("booking") EXCEPT !.flash =
                          <<"Please provide valid numbers for bedrooms, stairs, heavy items and distance.">>]
                    /\ invoked' = <<>>
                    /\ UNCHANGED estimate_form
               ELSE /\ session' = Set(stored, "estimate", EstimateEntry(est, args))
                    /\ response' = redirect("confirmation")
                    /\ invoked' = <<args>>
                    /\ estimate_form' = <<sub.details>>
            /\ UNCHANGED est_vars

(* GET /confirmation; None is <<>> and an estimate e is <<e>> *)
confirmation ==
    LET inventory_json == Get(session, "inventory_data", "")
        parsed == json_loads(inventory_json)
        inventory_data == IF inventory_json # "" /\ parsed.ok THEN parsed.val ELSE <<>>
        booking_data == [k \in ContactKeySet |-> Get(session, k, "")]
        estimate == IF "estimate" \in DOMAIN session THEN <<session["estimate"]>> ELSE <<>>
    IN  /\ request' = [method |-> "GET", path |-> "confirmation", form |-> <<>>]
        /\ response' = render_template("confirmation.html",
                          [inventory_data |-> inventory_data,
                           booking |-> booking_data,
                           estimate |-> estimate])
        /\ invoked' = <<>>
        /\ UNCHANGED <<session, estimate_form>>
        /\ UNCHANGED est_vars

Next ==
    \/ index
    \/ tips
    \/ inventory_get
    \/ inventory_post
    \/ booking_get
    \/ booking_post
    \/ confirmation

Spec == Init /\ [][Next]_vars

(* ============================ properties =============================== *)
Abs(n) == IF n < 0 THEN 0 - n ELSE n

(* The fuel surcharge as the specification words it, in 1/10000 unit *)
ClaimedFuel(distance_km) ==
    IF distance_km <= 10000 THEN 400000 ELSE 72 * distance_km

(* ---- estimator called directly (SpecEst) ---- *)

(* C1: movers is 2, 3 or 4 by bedrooms (<= 1, = 2, >= 3) for every integer *)
(* bedrooms, and with no heavy items, distance or stairs the returned      *)
(* hours are the base hours 4.0, 6.0, 8.0, 10.0 (<= 1, = 2, = 3, >= 4).    *)
C1_Tiering ==
    est_out # <<>> =>
        LET a == est_args
            r == est_out[1].ret
        IN  /\ r.movers \in {2, 3, 4}
            /\ a.bedrooms <= 1 => r.movers = 2
            /\ a.bedrooms = 2 => r.movers = 3
            /\ a.bedrooms >= 3 => r.movers = 4
            /\ (/\ a.heavy_items = 0 /\ a.distance_km = 0
                /\ a.stairs_origin = 0 /\ a.stairs_destination = 0)
               => /\ a.bedrooms <= 1 => r.hours = 40
                  /\ a.bedrooms = 2 => r.hours = 60
                  /\ a.bedrooms = 3 => r.hours = 80
                  /\ a.bedrooms >= 4 => r.hours = 100

C1_Witness ==
    /\ est_out # <<>>
    /\ est_args.bedrooms > 6
    /\ est_args.heavy_items = 0 /\ est_args.distance_km = 0
    /\ est_args.stairs_origin = 0 /\ est_args.stairs_destination = 0
    /\ est_out[1].ret.movers = 4
    /\ est_out[1].ret.hours = 100

(* The unrounded hours and cost as the specification words them *)
ClaimedHours(a) ==
    5000 * (IF a.bedrooms <= 1 THEN 4 ELSE IF a.bedrooms = 2 THEN 6
            ELSE IF a.bedrooms = 3 THEN 8 ELSE 10)
      + 2500 * a.heavy_items + a.distance_km
      + 2500 * (a.stairs_origin + a.stairs_destination)

ClaimedRate(a) ==
    LET r == IF a.bedrooms <= 1 THEN 140 ELSE IF a.bedrooms = 2 THEN 160 ELSE 180
    IN  IF a.peak_season THEN (6 * r) \div 5 ELSE r

(* C2: the returned cost is (H * rate + fuel) rounded to 2 decimals with H *)
(* the unrounded hours, and the returned hours are H rounded to 1 decimal. *)
C2_CostFromUnroundedHours ==
    est_out # <<>> =>
        LET a == est_args
            r == est_out[1].ret
            H == ClaimedHours(a)
            X == 2 * H * ClaimedRate(a) + ClaimedFuel(a.distance_km)
        IN  /\ Abs(100 * r.cost - X) <= 50
            /\ Abs(500 * r.hours - H) <= 250

(* A call whose hours change under rounding and whose cost is not the one *)
(* the rounded hours would give                                           *)
C2_Witness ==
    /\ est_out # <<>>
    /\ 500 * est_out[1].ret.hours # ClaimedHours(est_args)
    /\ Abs(100 * est_out[1].ret.cost
            - (2 * 500 * est_out[1].ret.hours * ClaimedRate(est_args)
                 + ClaimedFuel(est_args.distance_km))) > 50

(* The latest two calls differ only in peak_season, off then on *)
PeakPair ==
    /\ est_prev # <<>>
    /\ est_out # <<>>
    /\ est_args.peak_season
    /\ est_prev[1].args = [est_args EXCEPT !.peak_season = FALSE]

(* 5 * (P - (((C - F) * 1.2) + F)) in 1/10000 unit, P and C the returned  *)
(* peak and non-peak costs                                                *)
PeakGap ==
    LET P == est_out[1].ret.cost
        C == est_prev[1].ret.cost
        F == ClaimedFuel(est_args.distance_km)
    IN  5 * (100 * P) - (6 * (100 * C - F) + 5 * F)

(* C3 as stated: the peak cost is exactly ((C - F) * 1.2) + F *)
C3_Original == PeakPair => PeakGap = 0

(* C3 amended: the peak cost is within 0.011 of ((C - F) * 1.2) + F, the  *)
(* two returned costs being rounded to 2 decimals each                    *)
C3_PeakWithinRounding == PeakPair => Abs(PeakGap) <= 550

C3_Witness == PeakPair /\ PeakGap # 0 /\ est_args.distance_km > 10000

MorePair ==
    /\ est_prev # <<>>
    /\ est_out # <<>>
    /\ \E f \in {"heavy_items", "distance_km", "stairs_origin", "stairs_destination"} :
          /\ est_args[f] > est_prev[1].args[f]
          /\ est_prev[1].args = [est_args EXCEPT ![f] = est_prev[1].args[f]]

(* C5: a larger heavy_items, distance_km, stairs_origin or                *)
(* stairs_destination never lowers the returned hours or cost             *)
C5_Monotone ==
    MorePair =>
        /\ est_out[1].ret.hours >= est_prev[1].ret.hours
        /\ est_out[1].ret.cost >= est_prev[1].ret.cost

(* The distance crosses the 100 km fuel boundary *)
C5_Witness ==
    /\ MorePair
    /\ est_prev[1].args.distance_km = 10000
    /\ est_args.distance_km = 10001
    /\ est_out[1].ret.cost > est_prev[1].ret.cost

(* ---- the web application (Spec) ---- *)
IsBookingPost == request.method = "POST" /\ request.path = "booking"

(* Every numeric field of the form converts *)
NumbersParse(form) ==
    /\ ParseInt(Get(form, "bedrooms", "1")).ok
    /\ ParseInt(Get(form, "stairs_origin", "0")).ok
    /\ ParseInt(Get(form, "stairs_destination", "0")).ok
    /\ ParseInt(Get(form, "heavy_items", "0")).ok
    /\ ParseFloat(Get(form, "distance_km", "0")).ok

(* The text is a YYYY-MM-DD date in June, July or August *)
IsSummerDate(text) ==
    LET d == strptime(text) IN d.ok /\ d.month >= 6 /\ d.month <= 8

HasEstimate == "estimate" \in DOMAIN session

(* C6: in a booking POST whose numbers parse, the peak flag passed to      *)
(* compute_estimate and stored in the estimate is true exactly when        *)
(* move_date is a parsable date in June-August; with an empty or           *)
(* unparsable date the flag is false and the request still stores the      *)
(* estimate and redirects to confirmation.                                 *)
C6_PeakFromDate ==
    (IsBookingPost /\ NumbersParse(request.form)) =>
        /\ invoked # <<>>
        /\ invoked[1].peak_season = IsSummerDate(Get(request.form, "move_date", ""))
        /\ HasEstimate
        /\ session["estimate"].peak_season = invoked[1].peak_season
        /\ response.kind = "redirect"
        /\ response.location = "confirmation"

(* A date that matches the format but is no calendar day *)
C6_Witness ==
    /\ IsBookingPost
    /\ NumbersParse(request.form)
    /\ Get(request.form, "move_date", "") = "2024-06-31"
    /\ HasEstimate
    /\ ~session["estimate"].peak_season
    /\ response.location = "confirmation"

(* C7: a booking POST with a numeric field that does not parse calls no    *)
(* estimator, leaves session['estimate'] as it was and redirects to the    *)
(* booking form.                                                           *)
C7_RejectedSubmission ==
    [][ (/\ request'.method = "POST"
         /\ request'.path = "booking"
         /\ ~NumbersParse(request'.form))
        => /\ invoked' = <<>>
           /\ ("estimate" \in DOMAIN session') = ("estimate" \in DOMAIN session)
           /\ "estimate" \in DOMAIN session => session'["estimate"] = session["estimate"]
           /\ response'.kind = "redirect"
           /\ response'.location = "booking" ]_vars

(* A rejected submission made after an estimate was stored *)
C7_Witness ==
    /\ IsBookingPost
    /\ ~NumbersParse(request.form)
    /\ Get(request.form, "stairs_origin", "0") = "1.5"
    /\ HasEstimate
    /\ response.location = "booking"

(* C8 as stated: the estimator is never called with, and the session      *)
(* never stores, a negative numeric field                                 *)
C8_NonNegativeRequest ==
    /\ invoked # <<>> =>
          /\ invoked[1].bedrooms >= 0
          /\ invoked[1].stairs_origin >= 0
          /\ invoked[1].stairs_destination >= 0
          /\ invoked[1].heavy_items >= 0
          /\ invoked[1].distance_km >= 0
    /\ HasEstimate =>
          /\ session["estimate"].bedrooms >= 0
          /\ session["estimate"].stairs_origin >= 0
          /\ session["estimate"].stairs_destination >= 0
          /\ session["estimate"].heavy_items >= 0
          /\ session["estimate"].distance_km >= 0

(* C9: a stored estimate is compute_estimate of the inputs echoed in it;   *)
(* before the first successful booking POST there is none and              *)
(* confirmation renders estimate = None.                                   *)
C9_EstimateMatchesEcho ==
    /\ HasEstimate =>
          LET e == session["estimate"]
              r == compute_estimate(e.bedrooms, e.stairs_origin, e.stairs_destination,
                                    e.heavy_items, e.distance_km, e.peak_season)
          IN  e.movers = r.movers /\ e.hours = r.hours /\ e.cost = r.cost
    /\ estimate_form = <<>> =>
          /\ ~HasEstimate
          /\ (request.path = "confirmation" => response.context.estimate = <<>>)

(* The confirmation page shows an estimate whose stairs and heavy items differ *)
C9_Witness ==
    /\ HasEstimate
    /\ request.path = "confirmation"
    /\ response.context.estimate = <<session["estimate"]>>
    /\ session["estimate"].heavy_items # session["estimate"].stairs_destination

(* C10 as stated: while the session holds an estimate, its contact and    *)
(* move details are those of the submission that produced the estimate    *)
C10_DetailsOfSameSubmission ==
    HasEstimate =>
        estimate_form = <<[k \in ContactKeySet |-> session[k]]>>

============================================================================
